---------------------------- MODULE Spec2Model ----------------------------
(***************************************************************************)
(* Model of src/main.py: FourExchangeActiveStocksFetcher and main().       *)
(*                                                                         *)
(* Text is modelled as sequences of ASCII codes, so that str.lower(),      *)
(* str.strip(), the str comparison `d <= target_date`, strptime and        *)
(* strftime are computed the way Python computes them.                     *)
(* Time is a clock advanced by time.sleep(); a request and an answer of    *)
(* the operator take no time, which is the fastest the program can run.    *)
(***************************************************************************)
EXTENDS Integers, Sequences, FiniteSets, TLC

VARIABLES
    pc,              \* control position of the single thread
    target_date,     \* main(): target_date (text)
    count,           \* main(): count
    all_stocks,      \* get_most_active_stocks_for_date: all_stocks
    batch_size,      \* process_stocks_in_batches: batch_size
    i,               \* process_stocks_in_batches: i (start of the batch)
    j,               \* process_stocks_in_batches: j (index in the batch)
    batch_data,      \* process_stocks_in_batches: batch_data
    all_stock_data,  \* process_stocks_in_batches: all_stock_data
    depth,           \* nesting of get_daily_data activations for a symbol
    data,            \* get_daily_data: data (the last response)
    actual_date,     \* get_daily_data: actual_date, <<>> is None
    daily_data,      \* process_stocks_in_batches: daily_data, <<>> is None
    active_stocks,   \* main(): active_stocks, the ranked result
    clock,           \* time elapsed
    log              \* history: requests, answers and sleeps, in order

vars == <<pc, target_date, count, all_stocks, batch_size, i, j, batch_data,
          all_stock_data, depth, data, actual_date, daily_data,
          active_stocks, clock, log>>

(***************************************************************************)
(* Bounds of the model.                                                    *)
(***************************************************************************)
\* Largest number of instruments the filtered listing holds.
MaxStocks == 2

\* Number of nested get_daily_data activations that can still complete
\* requests.get before the interpreter's recursion limit is reached
\* (sys.getrecursionlimit() is 1000 by default; scaled down).
RecursionLimit == 2

\* Largest number of candidates and largest count of the ranker's inputs.
MaxCand == 3

(***************************************************************************)
(* Program constants.                                                      *)
(***************************************************************************)
InterCallDelay == 12
RateLimitCooldown == 60
DefaultBatchSize == 100
DefaultCount == 10

(***************************************************************************)
(* Text: sequences of ASCII codes.                                         *)
(***************************************************************************)
Dash == 45
Space == 32
Digit(n) == 48 + n

IsDigit(c) == c \in 48..57

\* str.lower() on ASCII text
LowerChar(c) == IF c \in 65..90 THEN c + 32 ELSE c
Lower(s) == [n \in 1..Len(s) |-> LowerChar(s[n])]

\* str.strip(): drop leading and trailing blanks
RECURSIVE LStrip(_)
LStrip(s) == IF s # <<>> /\ Head(s) = Space THEN LStrip(Tail(s)) ELSE s
RECURSIVE RStrip(_)
RStrip(s) ==
    IF s # <<>> /\ s[Len(s)] = Space THEN RStrip(SubSeq(s, 1, Len(s) - 1))
    ELSE s
Strip(s) == LStrip(RStrip(s))

\* Python's str `a <= b`: lexicographic by code point, a prefix is smaller
RECURSIVE StrLE(_, _)
StrLE(a, b) ==
    IF a = <<>> THEN TRUE
    ELSE IF b = <<>> THEN FALSE
    ELSE IF Head(a) < Head(b) THEN TRUE
    ELSE IF Head(a) > Head(b) THEN FALSE
    ELSE StrLE(Tail(a), Tail(b))

\* value of a run of digits
RECURSIVE NumVal(_)
NumVal(s) ==
    IF s = <<>> THEN 0 ELSE 10 * NumVal(SubSeq(s, 1, Len(s) - 1)) + (s[Len(s)] - 48)

AllDigits(s) == s # <<>> /\ \A n \in 1..Len(s) : IsDigit(s[n])

(***************************************************************************)
(* Dates.  A calendar date is <<month, day>> of the year 2024.             *)
(***************************************************************************)
Year == <<50, 48, 50, 52>>             \* "2024"

Pad2(n) == <<Digit(n \div 10), Digit(n % 10)>>
NoPad(n) == IF n < 10 THEN <<Digit(n)>> ELSE Pad2(n)

\* strftime('%Y-%m-%d'), also the form of the keys of the daily series
Strftime(md) == Year \o <<Dash>> \o Pad2(md[1]) \o <<Dash>> \o Pad2(md[2])

\* the same date typed without zero padding, e.g. "2024-1-13"
Unpadded(md) == Year \o <<Dash>> \o NoPad(md[1]) \o <<Dash>> \o NoPad(md[2])

DaysInMonth(m) ==
    IF m = 2 THEN 29 ELSE IF m \in {4, 6, 9, 11} THEN 30 ELSE 31

DashPos(s) == {n \in 1..Len(s) : s[n] = Dash}

\* datetime.strptime(s, '%Y-%m-%d'): <<month, day>>, or <<>> for ValueError.
\* %Y is four digits, %m and %d are one or two digits.
Strptime(s) ==
    IF Cardinality(DashPos(s)) # 2 THEN <<>>
    ELSE LET p1 == CHOOSE n \in DashPos(s) : \A q \in DashPos(s) : n <= q
             p2 == CHOOSE n \in DashPos(s) : \A q \in DashPos(s) : q <= n
             y  == SubSeq(s, 1, p1 - 1)
             m  == SubSeq(s, p1 + 1, p2 - 1)
             d  == SubSeq(s, p2 + 1, Len(s))
         IN IF /\ Len(y) = 4 /\ AllDigits(y)
               /\ Len(m) \in 1..2 /\ AllDigits(m) /\ NumVal(m) \in 1..12
               /\ Len(d) \in 1..2 /\ AllDigits(d)
               /\ NumVal(d) \in 1..DaysInMonth(NumVal(m))
            THEN <<NumVal(m), NumVal(d)>>
            ELSE <<>>

\* calendar order
DateLE(a, b) == a[1] < b[1] \/ (a[1] = b[1] /\ a[2] <= b[2])


(***************************************************************************)
(* Listing Source and Listing Filter (get_all_stocks_from_target_exchanges)*)
(***************************************************************************)
TxtActive == <<97, 99, 116, 105, 118, 101>>        \* "active"
TxtActiveCap == <<65, 99, 116, 105, 118, 101>>     \* "Active"
TxtActiveUp == <<65, 67, 84, 73, 86, 69, 32>>  \* "ACTIVE "
TxtDelisted == <<68, 101, 108, 105, 115, 116, 101, 100>> \* "Delisted"
TxtStock == <<83, 116, 111, 99, 107>>         \* "Stock"
TxtETF == <<69, 84, 70>>                      \* "ETF"
TxtNASDAQ == <<78, 65, 83, 68, 65, 81>>
TxtNYSE == <<78, 89, 83, 69>>
TxtASX == <<65, 83, 88>>
TxtHKSE == <<72, 75, 83, 69>>
TxtLSE == <<76, 83, 69>>

target_exchanges == <<TxtNASDAQ, TxtNYSE, TxtASX, TxtHKSE>>

InTargetExchanges(x) == \E n \in 1..Len(target_exchanges) : target_exchanges[n] = x

\* the text "S<n>" / "N<n>" used as symbol and name of the n-th instrument
SymbolText(n) == <<83, Digit(n)>>
NameText(n) == <<78, Digit(n)>>

\* a listed row of the n-th instrument that the filter keeps
GoodRow(n) ==
    [symbol |-> SymbolText(n) \o <<Space>>,
     name |-> NameText(n),
     exchange |-> target_exchanges[((n - 1) % 4) + 1],
     assetType |-> TxtStock,
     status |-> IF n % 3 = 1 THEN TxtActiveCap
                ELSE IF n % 3 = 2 THEN TxtActive ELSE TxtActiveUp]

\* a listed row that the filter drops: delisted, not a stock, other exchange
OtherRow(n) ==
    [symbol |-> <<88, Digit(n)>>,
     name |-> NameText(n),
     exchange |-> IF n % 3 = 0 THEN TxtLSE ELSE TxtNYSE,
     assetType |-> IF n % 3 = 2 THEN TxtETF ELSE TxtStock,
     status |-> IF n % 3 = 1 THEN TxtDelisted ELSE TxtActiveCap]

\* the directory returned by the Listing Source: n kept rows among others
RECURSIVE RawListing(_)
RawListing(n) ==
    IF n = 0 THEN <<OtherRow(1)>>
    ELSE RawListing(n - 1) \o <<GoodRow(n), OtherRow(n + 1)>>

\* outcomes of the listing request: transport failure, or the parsed rows
ListingResponses ==
    {[ok |-> FALSE, rows |-> <<>>]}
    \cup {[ok |-> TRUE, rows |-> <<>>]}
    \cup {[ok |-> TRUE, rows |-> RawListing(n)] : n \in 0..MaxStocks}

\* the asset type compared without regard to letter case
RowIncludedAnyCaseType(row) ==
    /\ Strip(Lower(row.status)) = TxtActive
    /\ InTargetExchanges(Strip(row.exchange))
    /\ Lower(Strip(row.assetType)) = Lower(TxtStock)

\* lines 39-46: the filter condition on one row
RowIncluded(row) ==
    /\ Strip(Lower(row.status)) = TxtActive
    /\ InTargetExchanges(Strip(row.exchange))
    /\ Strip(row.assetType) = TxtStock

\* lines 48-53: stock_info
StockInfo(row) ==
    [symbol |-> Strip(row.symbol), name |-> Strip(row.name),
     exchange |-> Strip(row.exchange)]

\* lines 35-66: target_stocks
RECURSIVE FilterRows(_)
FilterRows(rows) ==
    IF rows = <<>> THEN <<>>
    ELSE IF RowIncluded(Head(rows))
         THEN <<StockInfo(Head(rows))>> \o FilterRows(Tail(rows))
         ELSE FilterRows(Tail(rows))

\* lines 27-70: the value get_all_stocks_from_target_exchanges returns
TargetStocks(resp) == IF resp.ok THEN FilterRows(resp.rows) ELSE <<>>

(***************************************************************************)
(* Quote Source responses and get_daily_data                               *)
(***************************************************************************)
\* a field of a daily record as received: a number, text that float()/int()
\* rejects (ValueError), or no such key (KeyError)
Num(n) == [tag |-> "num", v |-> n]
Garbage == [tag |-> "text", v |-> 0]
Absent == [tag |-> "absent", v |-> 0]

RawBar(o, h, l, c, v) ==
    [open |-> o, high |-> h, low |-> l, close |-> c, volume |-> v]

BarFields == {"open", "high", "low", "close", "volume"}

\* lines 116-128: the parsed bar as a one-element sequence, <<>> for None
ParseBar(symbol, date, raw) ==
    IF \A f \in BarFields : raw[f].tag = "num"
    THEN <<[symbol |-> symbol, date |-> date,
            open |-> raw.open.v, high |-> raw.high.v, low |-> raw.low.v,
            close |-> raw.close.v, volume |-> raw.volume.v]>>
    ELSE <<>>

\* lines 109-110: dates of the series not after the target, as str compares
AvailableDates(time_series, target) ==
    {d \in DOMAIN time_series : StrLE(d, target)}

\* a fallback: the latest date not after the target whose record parses and
\* has traded volume
ResolveDateTraded(time_series, target) ==
    LET usable == {d \in AvailableDates(time_series, target) :
                      LET bar == ParseBar(<<>>, d, time_series[d])
                      IN bar # <<>> /\ bar[1].volume > 0}
    IN IF usable # {}
       THEN <<CHOOSE d \in usable : \A e \in usable : StrLE(e, d)>>
       ELSE <<>>

\* lines 100-113: actual_date as a one-element sequence, <<>> for None
ResolveDate(time_series, target) ==
    IF target \in DOMAIN time_series THEN <<target>>
    ELSE LET available_dates == AvailableDates(time_series, target)
         IN IF available_dates # {}
            THEN <<CHOOSE d \in available_dates :
                       \A e \in available_dates : StrLE(e, d)>>
            ELSE <<>>

\* lines 115-130: the bar of the resolved date, <<>> (None) without a date
BarAt(symbol, time_series, ad) ==
    IF ad = <<>> THEN <<>> ELSE ParseBar(symbol, ad[1], time_series[ad[1]])

\* lines 96-130: the value returned for a response that carries a series
BarOfSeries(symbol, time_series, target) ==
    IF DOMAIN time_series = {} THEN <<>>
    ELSE BarAt(symbol, time_series, ResolveDate(time_series, target))

\* a response: the request failed (transport), or a JSON document with
\* optional "Error Message", optional "Note" and a daily series
Transport == [kind |-> "transport", error |-> FALSE, note |-> FALSE, series |-> <<>>]
Json(e, n, ts) == [kind |-> "json", error |-> e, note |-> n, series |-> ts]

\* lines 100-130: how a non-empty series ends, given the resolved date
SeriesOutcome(time_series, ad) ==
    IF ad = <<>> THEN "nodate"
    ELSE IF BarAt(<<>>, time_series, ad) = <<>> THEN "badbar"
    ELSE "bar"

\* lines 83-134: the way one response is handled
Outcome(resp, target) ==
    IF resp.kind = "transport" THEN "transport"
    ELSE IF resp.error THEN "error"
    ELSE IF resp.note THEN "note"
    ELSE IF DOMAIN resp.series = {} THEN "empty"
    ELSE SeriesOutcome(resp.series, ResolveDate(resp.series, target))

\* lines 83-134 without the retry: the value returned for one response
DailyDataOf(symbol, resp, target) ==
    IF resp.kind = "transport" \/ resp.error \/ resp.note THEN <<>>
    ELSE BarOfSeries(symbol, resp.series, target)

(***************************************************************************)
(* Activity Scorer (calculate_activity_metrics).  Prices and volumes are   *)
(* integers; the derived values are kept in hundredths, rounded as         *)
(* round(x, 2) rounds (to nearest, ties to even).                          *)
(***************************************************************************)
Abs(x) == IF x < 0 THEN 0 - x ELSE x
Min(a, b) == IF a < b THEN a ELSE b

\* whole + num/den (den > 0) cut to the integer below
RoundPartsDown(whole, num, den) == whole + (num \div den)

\* whole + num/den (den > 0) rounded to the nearest integer, ties to even
RoundParts(whole, num, den) ==
    LET q == num \div den
        r == num % den
        base == whole + q
    IN IF 2 * r < den THEN base
       ELSE IF 2 * r > den THEN base + 1
       ELSE IF base % 2 = 0 THEN base ELSE base + 1

\* the price move weighted with its sign: abs() left out
calculate_signed_metrics(stock_data) ==
    LET o == stock_data.open
        price_change == stock_data.close - o
        intraday_range == stock_data.high - stock_data.low
        n == 80000 * price_change + 40000 * intraday_range
        qv == stock_data.volume \div 10000
        rv == stock_data.volume % 10000
    IN [price_change |-> 100 * price_change,
        price_change_percent |->
            IF o # 0 THEN RoundParts(0, 10000 * price_change, o) ELSE 0,
        volatility_percent |->
            IF o # 0 THEN RoundParts(0, 10000 * intraday_range, o) ELSE 0,
        activity_score |->
            IF o # 0
            THEN RoundParts(qv + (n \div o), rv * o + (n % o) * 10000, 10000 * o)
            ELSE RoundParts(qv, rv, 10000)]

\* lines 141-163, every value in hundredths
calculate_activity_metrics(stock_data) ==
    LET o == stock_data.open
        price_change == stock_data.close - o
        intraday_range == stock_data.high - stock_data.low
        \* 100 * activity_score = volume / 10^4 + n / open
        n == 80000 * Abs(price_change) + 40000 * intraday_range
        qv == stock_data.volume \div 10000
        rv == stock_data.volume % 10000
    IN [price_change |-> 100 * price_change,
        price_change_percent |->
            IF o # 0 THEN RoundParts(0, 10000 * price_change, o) ELSE 0,
        volatility_percent |->
            IF o # 0 THEN RoundParts(0, 10000 * intraday_range, o) ELSE 0,
        activity_score |->
            IF o # 0
            THEN RoundParts(qv + (n \div o), rv * o + (n % o) * 10000, 10000 * o)
            ELSE RoundParts(qv, rv, 10000)]

(***************************************************************************)
(* Ranker (get_most_active_stocks_for_date, steps 4 and 5)                 *)
(***************************************************************************)
\* lines 251-269: enhanced_stock
Enhanced(stock_data) ==
    LET metrics == calculate_activity_metrics(stock_data)
    IN [symbol |-> stock_data.symbol, name |-> stock_data.name,
        exchange |-> stock_data.exchange, date |-> stock_data.date,
        open |-> stock_data.open, high |-> stock_data.high,
        low |-> stock_data.low, close |-> stock_data.close,
        volume |-> stock_data.volume,
        price_change |-> metrics.price_change,
        price_change_percent |-> metrics.price_change_percent,
        volatility_percent |-> metrics.volatility_percent,
        activity_score |-> metrics.activity_score]

EnhancedStocks(stock_data_list) ==
    [n \in 1..Len(stock_data_list) |-> Enhanced(stock_data_list[n])]

\* an unstable descending sort: an element goes before its equals
RECURSIVE InsertDescUnstable(_, _)
InsertDescUnstable(sorted, x) ==
    IF sorted = <<>> THEN <<x>>
    ELSE IF Head(sorted).activity_score > x.activity_score
         THEN <<Head(sorted)>> \o InsertDescUnstable(Tail(sorted), x)
         ELSE <<x>> \o sorted

\* list.sort(key=activity_score, reverse=True) is stable: an element goes
\* behind every element whose score is at least its own
RECURSIVE InsertDesc(_, _)
InsertDesc(sorted, x) ==
    IF sorted = <<>> THEN <<x>>
    ELSE IF Head(sorted).activity_score >= x.activity_score
         THEN <<Head(sorted)>> \o InsertDesc(Tail(sorted), x)
         ELSE <<x>> \o sorted

RECURSIVE SortDesc(_)
SortDesc(list) ==
    IF list = <<>> THEN <<>>
    ELSE InsertDesc(SortDesc(SubSeq(list, 1, Len(list) - 1)), list[Len(list)])

\* lines 272-275: enhanced_stocks.sort(...); enhanced_stocks[:count]
TopN(enhanced_stocks, n) ==
    SubSeq(SortDesc(enhanced_stocks), 1, Min(n, Len(enhanced_stocks)))

\* lines 241-275
RankedStocks(stock_data_list, n) ==
    IF stock_data_list = <<>> THEN <<>>
    ELSE TopN(EnhancedStocks(stock_data_list), n)

(***************************************************************************)
(* Inputs of the model                                                     *)
(***************************************************************************)
Jan09 == <<1, 9>>
Jan10 == <<1, 10>>
Jan11 == <<1, 11>>
Jan12 == <<1, 12>>
Jan13 == <<1, 13>>
Sep30 == <<9, 30>>

TxtToday == <<116, 111, 100, 97, 121>>          \* "today"
TxtTodayCap == <<84, 111, 100, 97, 121>>       \* "Today"
TxtBadMonth == Year \o <<Dash>> \o Pad2(13) \o <<Dash>> \o Pad2(1)

\* what the operator types at the date prompt
DateInputs ==
    {TxtTodayCap, Strftime(Jan12) \o <<Space>>, Unpadded(Jan12), TxtBadMonth}

\* datetime.now()
NowDates == {Jan12}

TxtY == <<121>>                                \* "y"
TxtYCap == <<Space, 89>>                       \* " Y"
TxtYes == <<121, 101, 115>>                    \* "yes"
TxtN == <<110>>                                \* "n"
TxtZero == <<Digit(0)>>                        \* "0"
TxtX == <<120>>                                \* "x"
TxtTen == <<Digit(1), Digit(0)>>               \* "10"

\* what the operator types at the count prompt and at the confirmation
CountInputs == {<<>>, TxtZero, TxtX}
ConfirmInputs == {TxtYCap, TxtN, TxtYes, <<>>}

GoodBar1 == RawBar(Num(10), Num(11), Num(9), Num(10), Num(5000000))
GoodBar2 == RawBar(Num(10), Num(12), Num(10), Num(11), Num(1000000))
ZeroVolumeBar == RawBar(Num(10), Num(11), Num(9), Num(10), Num(0))
\* a record without "2. high" and with a volume that int() rejects
UnparsableBar == RawBar(Num(10), Absent, Num(9), Num(10), Garbage)

EmptySeries == <<>>

\* daily series the Quote Source answers with in the pipeline
SeriesSamples ==
    {EmptySeries,
     Strftime(Jan12) :> GoodBar1,
     Strftime(Jan11) :> GoodBar2,
     (Strftime(Jan11) :> GoodBar1) @@ (Strftime(Jan12) :> ZeroVolumeBar),
     (Strftime(Jan11) :> GoodBar1) @@ (Strftime(Jan12) :> UnparsableBar),
     Strftime(Sep30) :> GoodBar1}

\* answers of the Quote Source to one request
QuoteResponses ==
    {Transport, Json(TRUE, FALSE, EmptySeries), Json(FALSE, TRUE, EmptySeries)}
    \cup {Json(FALSE, FALSE, ts) : ts \in SeriesSamples}

(***************************************************************************)
(* The history                                                             *)
(***************************************************************************)
NoData == [kind |-> "none", error |-> FALSE, note |-> FALSE, series |-> <<>>]

Event(ev, k, sym, date, out, resp, dur) ==
    [ev |-> ev, k |-> k, sym |-> sym, date |-> date, out |-> out,
     resp |-> resp, dur |-> dur, t |-> clock]

\* the listing request (line 28) and whether it succeeded
ListingEv(ok) ==
    Event("listing", 0, <<>>, <<>>, IF ok THEN "ok" ELSE "transport", NoData, 0)
\* a quote request for the k-th listed instrument (line 84)
QuoteEv(k, sym, date) == Event("quote", k, sym, date, "", NoData, 0)
\* what the latest quote request of the k-th instrument was answered with
AnswerEv(k, sym, date, out, resp) == Event("answer", k, sym, date, out, resp, 0)
\* the text typed at the confirmation prompt (line 233)
ConfirmEv(typed) == Event("confirm", 0, typed, <<>>, "", NoData, 0)
\* a time.sleep(dur) taken while the k-th instrument is processed
SleepEv(k, dur) == Event("sleep", k, <<>>, <<>>, "", NoData, dur)

(***************************************************************************)
(* main(): the prompts                                                     *)
(***************************************************************************)
\* int(text): the value as a one-element sequence, <<>> for ValueError
IntOf(text) ==
    IF AllDigits(Strip(text)) THEN <<NumVal(Strip(text))>> ELSE <<>>

Init ==
    /\ pc = "main_date"
    /\ target_date = <<>>
    /\ count = 0
    /\ all_stocks = <<>>
    /\ batch_size = DefaultBatchSize
    /\ i = 0
    /\ j = 0
    /\ batch_data = <<>>
    /\ all_stock_data = <<>>
    /\ depth = 0
    /\ data = NoData
    /\ actual_date = <<>>
    /\ daily_data = <<>>
    /\ active_stocks = <<>>
    /\ clock = 0
    /\ log = <<>>

\* lines 340-352: one round of the date prompt
MainDateInput ==
    /\ pc = "main_date"
    /\ \E typed \in DateInputs, now \in NowDates :
        LET date_input == Strip(typed)
        IN IF Lower(date_input) = TxtToday
           THEN target_date' = Strftime(now) /\ pc' = "main_count"
           ELSE IF Strptime(date_input) # <<>>
                THEN target_date' = date_input /\ pc' = "main_count"
                ELSE target_date' = target_date /\ pc' = pc
    /\ UNCHANGED <<count, all_stocks, batch_size, i, j, batch_data,
                   all_stock_data, depth, data, actual_date, daily_data,
                   active_stocks, clock, log>>

\* lines 355-363: one round of the count prompt
MainCountInput ==
    /\ pc = "main_count"
    /\ \E typed \in CountInputs :
        LET parsed == IntOf(IF typed = <<>> THEN TxtTen ELSE typed)
        IN IF parsed # <<>> /\ parsed[1] > 0
           THEN count' = parsed[1] /\ pc' = "listing"
           ELSE count' = count /\ pc' = pc
    /\ UNCHANGED <<target_date, all_stocks, batch_size, i, j, batch_data,
                   all_stock_data, depth, data, actual_date, daily_data,
                   active_stocks, clock, log>>

(***************************************************************************)
(* get_most_active_stocks_for_date                                         *)
(***************************************************************************)
\* the empty listing is not checked
AfterListingAlwaysConfirm(stocks) == "confirm"

\* lines 222-224: an empty listing ends the run
AfterListing(stocks) == IF stocks = <<>> THEN "done" ELSE "confirm"

\* lines 219-224 with get_all_stocks_from_target_exchanges (lines 17-70)
GetAllStocks ==
    /\ pc = "listing"
    /\ \E response \in ListingResponses :
        /\ all_stocks' = TargetStocks(response)
        /\ pc' = AfterListing(TargetStocks(response))
        /\ log' = Append(log, ListingEv(response.ok))
    /\ active_stocks' = <<>>
    /\ UNCHANGED <<target_date, count, batch_size, i, j, batch_data,
                   all_stock_data, depth, data, actual_date, daily_data,
                   clock>>

\* anything but "n" taken as consent
ConfirmedUnlessNo(typed) == Lower(Strip(typed)) # TxtN

\* lines 233-234: confirm == 'y'
Confirmed(typed) == Lower(Strip(typed)) = TxtY

\* lines 233-239 and 169-170: the confirmation, then the fetch begins
Confirm ==
    /\ pc = "confirm"
    /\ \E typed \in ConfirmInputs :
        /\ pc' = IF Confirmed(typed) THEN "batch" ELSE "done"
        /\ log' = Append(log, ConfirmEv(typed))
    /\ i' = 0
    /\ all_stock_data' = <<>>
    /\ active_stocks' = <<>>
    /\ UNCHANGED <<target_date, count, all_stocks, batch_size, j, batch_data,
                   depth, data, actual_date, daily_data, clock>>

(***************************************************************************)
(* process_stocks_in_batches                                               *)
(***************************************************************************)
\* line 173: len(batch)
BatchLen == Min(batch_size, Len(all_stocks) - i)
\* the position within the batch used as the position in the listing
CurrentInBatch == j + 1

\* position in the listing of the instrument being processed
Current == i + j + 1

\* lines 172-180, and line 208 when the range is exhausted
BatchStart ==
    /\ pc = "batch"
    /\ IF i < Len(all_stocks)
       THEN /\ batch_data' = <<>>
            /\ j' = 0
            /\ depth' = 1
            /\ pc' = "fetch"
       ELSE /\ pc' = "rank"
            /\ UNCHANGED <<batch_data, j, depth>>
    /\ UNCHANGED <<target_date, count, all_stocks, batch_size, i,
                   all_stock_data, data, actual_date, daily_data,
                   active_stocks, clock, log>>

\* the hard error treated like the rate-limit notice
IsRateLimitedOrError(resp) == resp.kind = "json" /\ (resp.error \/ resp.note)

\* lines 89-94: the response is a rate-limit notice and not a hard error
IsRateLimited(resp) == resp.kind = "json" /\ ~resp.error /\ resp.note

\* lines 83-134: one activation of get_daily_data that completes its request
GetDailyData ==
    /\ pc = "fetch"
    /\ depth <= RecursionLimit
    /\ \E response \in QuoteResponses :
        LET symbol == all_stocks[Current].symbol
            out == Outcome(response, target_date)
            asked == Append(log, QuoteEv(Current, symbol, target_date))
            answered ==
                Append(asked, AnswerEv(Current, symbol, target_date, out, response))
        IN /\ data' = response
           /\ IF IsRateLimited(response)
              THEN \* lines 91-94: cooldown, then the nested activation
                   /\ clock' = clock + RateLimitCooldown
                   /\ log' = Append(answered, SleepEv(Current, RateLimitCooldown))
                   /\ depth' = depth + 1
                   /\ pc' = "fetch"
                   /\ UNCHANGED <<daily_data, actual_date>>
              ELSE /\ daily_data' = DailyDataOf(symbol, response, target_date)
                   /\ actual_date' =
                        IF out \in {"bar", "badbar"}
                        THEN ResolveDate(response.series, target_date)
                        ELSE <<>>
                   /\ log' = answered
                   /\ pc' = "record"
                   /\ UNCHANGED <<clock, depth>>
    /\ UNCHANGED <<target_date, count, all_stocks, batch_size, i, j,
                   batch_data, all_stock_data, active_stocks>>

\* line 94 at the interpreter's recursion limit: requests.get raises
\* RecursionError, before or after the request went out; line 132 catches it
\* and every activation returns None
GetDailyDataRecursionError ==
    /\ pc = "fetch"
    /\ depth > RecursionLimit
    /\ \E sent \in BOOLEAN :
        LET symbol == all_stocks[Current].symbol
            asked == IF sent
                     THEN Append(log, QuoteEv(Current, symbol, target_date))
                     ELSE log
        IN log' = Append(asked, AnswerEv(Current, symbol, target_date,
                                         "recursion", NoData))
    /\ daily_data' = <<>>
    /\ actual_date' = <<>>
    /\ pc' = "record"
    /\ UNCHANGED <<target_date, count, all_stocks, batch_size, i, j,
                   batch_data, all_stock_data, depth, data, active_stocks,
                   clock>>

\* lines 189-190: the listing's exchange and name are added to the bar
WithListing(bar, stock) ==
    [symbol |-> bar.symbol, date |-> bar.date, open |-> bar.open,
     high |-> bar.high, low |-> bar.low, close |-> bar.close,
     volume |-> bar.volume, exchange |-> stock.exchange, name |-> stock.name]

\* the volume test left out
HasVolumeAnyBar(dd) == dd # <<>>

\* line 187
HasVolume(dd) == dd # <<>> /\ dd[1].volume > 0

\* the delay placed inside the `if`: taken only when a bar was kept
PaceDelayOnlyOnData(dd) == IF HasVolume(dd) THEN InterCallDelay ELSE 0

\* line 194: the delay after a symbol, whatever get_daily_data returned
PaceDelay(dd) == InterCallDelay

\* a failed symbol ends the batch
AfterSymbolStopOnNone(dd, more) ==
    IF more /\ dd # <<>> THEN "fetch" ELSE "batch_end"

\* line 182: the loop goes on to the next symbol of the batch, whatever
\* get_daily_data returned
AfterSymbol(dd, more) == IF more THEN "fetch" ELSE "batch_end"

\* lines 187-194: keep the bar if it has volume, then the inter-call delay
RecordAndPace ==
    /\ pc = "record"
    /\ batch_data' =
         IF HasVolume(daily_data)
         THEN Append(batch_data, WithListing(daily_data[1], all_stocks[Current]))
         ELSE batch_data
    /\ clock' = clock + PaceDelay(daily_data)
    /\ log' = Append(log, SleepEv(Current, PaceDelay(daily_data)))
    /\ j' = j + 1
    /\ pc' = AfterSymbol(daily_data, j + 1 < BatchLen)
    /\ depth' = IF pc' = "fetch" THEN 1 ELSE 0
    /\ UNCHANGED <<target_date, count, all_stocks, batch_size, i,
                   all_stock_data, data, actual_date, daily_data,
                   active_stocks>>

\* the batch assigned to the result
ReplaceResult(result, batch) == batch

\* line 196: all_stock_data.extend(batch_data)
ExtendResult(result, batch) == result \o batch

\* lines 196-206: the batch is added to the result, the range advances
BatchEnd ==
    /\ pc = "batch_end"
    /\ all_stock_data' = ExtendResult(all_stock_data, batch_data)
    /\ i' = i + batch_size
    /\ pc' = "batch"
    /\ UNCHANGED <<target_date, count, all_stocks, batch_size, j, batch_data,
                   depth, data, actual_date, daily_data, active_stocks,
                   clock, log>>

\* lines 241-275: score, sort and truncate
Rank ==
    /\ pc = "rank"
    /\ active_stocks' = RankedStocks(all_stock_data, count)
    /\ pc' = "done"
    /\ UNCHANGED <<target_date, count, all_stocks, batch_size, i, j,
                   batch_data, all_stock_data, depth, data, actual_date,
                   daily_data, clock, log>>

Next ==
    \/ MainDateInput
    \/ MainCountInput
    \/ GetAllStocks
    \/ Confirm
    \/ BatchStart
    \/ GetDailyData
    \/ GetDailyDataRecursionError
    \/ RecordAndPace
    \/ BatchEnd
    \/ Rank

Spec == Init /\ [][Next]_vars


(***************************************************************************)
(* The Trading-Day Resolver on its own: get_daily_data from line 96 on,    *)
(* applied to every series over ResolverDates and every target that main() *)
(* accepts among ResolverTargets.                                          *)
(***************************************************************************)
ResolverDates == {Jan10, Jan11, Jan12, Sep30}

ResolverTargets ==
    {Strftime(d) : d \in {Jan09, Jan11, Jan13}}
    \cup {Unpadded(d) : d \in {Jan09, Jan11, Jan13}}

ResolverSeries ==
    {[d \in {Strftime(md) : md \in S} |-> GoodBar1] : S \in SUBSET ResolverDates}

InitResolver ==
    /\ pc = "resolve"
    /\ target_date \in {t \in ResolverTargets : Strptime(t) # <<>>}
    /\ data \in {Json(FALSE, FALSE, ts) : ts \in ResolverSeries}
    /\ count = DefaultCount
    /\ all_stocks = <<>>
    /\ batch_size = DefaultBatchSize
    /\ i = 0
    /\ j = 0
    /\ batch_data = <<>>
    /\ all_stock_data = <<>>
    /\ depth = 1
    /\ actual_date = <<>>
    /\ daily_data = <<>>
    /\ active_stocks = <<>>
    /\ clock = 0
    /\ log = <<>>

\* lines 96-130
Resolve ==
    /\ pc = "resolve"
    /\ actual_date' =
         IF DOMAIN data.series = {} THEN <<>>
         ELSE ResolveDate(data.series, target_date)
    /\ daily_data' = DailyDataOf(SymbolText(1), data, target_date)
    /\ pc' = "resolved"
    /\ UNCHANGED <<target_date, count, all_stocks, batch_size, i, j,
                   batch_data, all_stock_data, depth, data, active_stocks,
                   clock, log>>

NextResolver == Resolve

SpecResolver == InitResolver /\ [][NextResolver]_vars

(***************************************************************************)
(* The Ranker on its own: lines 241-275 applied to every list of up to     *)
(* MaxCand bars and every count up to MaxCand.                             *)
(***************************************************************************)
GoodBar3 == RawBar(Num(20), Num(22), Num(18), Num(20), Num(5000000))

RankerBars == {GoodBar1, GoodBar2, GoodBar3}

\* the bar of the k-th candidate as process_stocks_in_batches returns it
Candidate(k, raw) ==
    WithListing(ParseBar(SymbolText(k), Strftime(Jan12), raw)[1],
                StockInfo(GoodRow(k)))

CandidateLists ==
    UNION {{[k \in 1..n |-> Candidate(k, f[k])] : f \in [1..n -> RankerBars]} :
           n \in 0..MaxCand}

InitRanker ==
    /\ pc = "rank"
    /\ count \in 1..MaxCand
    /\ all_stock_data \in CandidateLists
    /\ target_date = Strftime(Jan12)
    /\ all_stocks = <<>>
    /\ batch_size = DefaultBatchSize
    /\ i = 0
    /\ j = 0
    /\ batch_data = <<>>
    /\ depth = 0
    /\ data = NoData
    /\ actual_date = <<>>
    /\ daily_data = <<>>
    /\ active_stocks = <<>>
    /\ clock = 0
    /\ log = <<>>

NextRanker == Rank

SpecRanker == InitRanker /\ [][NextRanker]_vars

(***************************************************************************)
(* Reading the history                                                     *)
(***************************************************************************)
LogIdx == 1..Len(log)
QuoteIdx == {n \in LogIdx : log[n].ev = "quote"}
CallIdx == {n \in LogIdx : log[n].ev \in {"quote", "listing"}}
QuotesOf(k) == {n \in QuoteIdx : log[n].k = k}
AnswersOf(k) == {n \in LogIdx : log[n].ev = "answer" /\ log[n].k = k}
NotesOf(k) == {n \in AnswersOf(k) : log[n].out = "note"}

\* outcomes a request can receive other than the rate-limit notice
FinalOuts == {"transport", "error", "empty", "nodate", "badbar", "bar"}

IsSleep(n, k, dur) ==
    n \in LogIdx /\ log[n].ev = "sleep" /\ log[n].k = k /\ log[n].dur = dur

\* the fetcher has finished with the k-th instrument
Settled(k) ==
    \E n \in LogIdx : /\ n > 1
                      /\ log[n].ev = "sleep" /\ log[n].k = k
                      /\ log[n - 1].ev = "answer" /\ log[n - 1].out # "note"

LastAnswer(k) == log[CHOOSE n \in AnswersOf(k) : \A m \in AnswersOf(k) : m <= n]

PositiveVolume(dd) == dd # <<>> /\ dd[1].volume > 0

\* the answer resolved to a fully parsed bar with traded volume
TradedBar(ans) ==
    ans.out = "bar" /\ PositiveVolume(DailyDataOf(ans.sym, ans.resp, ans.date))

\* the Batch Fetcher's output so far
Output ==
    IF pc \in {"fetch", "record", "batch_end"}
    THEN all_stock_data \o batch_data
    ELSE all_stock_data

Recorded(k) ==
    \E n \in 1..Len(Output) : Output[n].symbol = all_stocks[k].symbol

FetchRan == pc = "rank" \/ (pc = "done" /\ QuoteIdx # {})

(***************************************************************************)
(* C1.  In every run of process_stocks_in_batches any two quote requests   *)
(* are at least 12 time units of sleep apart, so at most 5 quote requests  *)
(* start in any half-open interval of 60 time units; every sleep of the    *)
(* fetcher is a 60-unit cooldown or a 12-unit delay, and exactly one       *)
(* 12-unit delay is taken per symbol, right after its final outcome.       *)
(***************************************************************************)
QuotesSeparated ==
    \A a, b \in QuoteIdx : a < b => log[b].t - log[a].t >= 12

QuoteWindowBudget ==
    \A a \in QuoteIdx :
        Cardinality({b \in QuoteIdx :
                        log[a].t <= log[b].t /\ log[b].t < log[a].t + 60}) <= 5

OneDelayPerSymbol ==
    /\ \A n \in LogIdx :
          (log[n].ev = "answer" /\ log[n].out # "note") =>
              IF n < Len(log) THEN IsSleep(n + 1, log[n].k, 12)
              ELSE pc = "record"
    /\ \A n \in LogIdx :
          (log[n].ev = "sleep" /\ log[n].dur # 60) =>
              /\ log[n].dur = 12
              /\ n > 1
              /\ log[n - 1].ev = "answer" /\ log[n - 1].k = log[n].k
              /\ log[n - 1].out # "note"
    /\ \A k \in 1..Len(all_stocks) :
          Cardinality({n \in LogIdx : IsSleep(n, k, 12)}) <= 1
    /\ FetchRan =>
          \A k \in 1..Len(all_stocks) :
              Cardinality({n \in LogIdx : IsSleep(n, k, 12)}) = 1

QuotePacing == QuotesSeparated /\ QuoteWindowBudget /\ OneDelayPerSymbol

\* a finished run with a retried symbol, a failed symbol and four requests
QuotePacingWitness ==
    /\ pc = "done"
    /\ Cardinality(QuoteIdx) >= 4
    /\ NotesOf(1) # {}
    /\ \E n \in AnswersOf(2) : log[n].out = "transport"

(***************************************************************************)
(* C2.  Over a whole run, counting the listing request and every quote     *)
(* request, calls made with the API key are at least 12 time units apart   *)
(* and at most 5 of them start in any interval of 60 time units.           *)
(***************************************************************************)
AllCallsWithinBudget ==
    /\ \A a, b \in CallIdx : a < b => log[b].t - log[a].t >= 12
    /\ \A a \in CallIdx :
        Cardinality({b \in CallIdx :
                        log[a].t <= log[b].t /\ log[b].t < log[a].t + 60}) <= 5

(***************************************************************************)
(* C3.  A rate-limit answer for a symbol is followed by exactly the        *)
(* 60-unit cooldown and then by a request for the same symbol and date;    *)
(* no other symbol is requested and nothing is recorded for the symbol     *)
(* until one of its requests receives a non-rate-limit outcome.            *)
(***************************************************************************)
RateLimitRetriesSameSymbol ==
    /\ \A n \in LogIdx :
          (log[n].ev = "answer" /\ log[n].out = "note") =>
              /\ IsSleep(n + 1, log[n].k, 60)
              /\ IF n + 1 < Len(log)
                 THEN /\ log[n + 2].ev = "quote"
                      /\ log[n + 2].k = log[n].k
                      /\ log[n + 2].sym = log[n].sym
                      /\ log[n + 2].date = log[n].date
                 ELSE pc = "fetch" /\ Current = log[n].k
              /\ \A m \in LogIdx :
                    (m > n /\ log[m].ev = "quote" /\ log[m].k # log[n].k) =>
                        \E q \in (n + 1)..(m - 1) :
                            /\ log[q].ev = "answer" /\ log[q].k = log[n].k
                            /\ log[q].out \in FinalOuts
    /\ \A k \in 1..Len(all_stocks) :
          Recorded(k) => \E q \in AnswersOf(k) : log[q].out \in FinalOuts

(***************************************************************************)
(* C4.  Rate-limit retry has no ceiling: after every rate-limit answer and *)
(* its cooldown another request for the symbol is issued, and the fetcher  *)
(* leaves a symbol only after a non-rate-limit outcome of a request.       *)
(***************************************************************************)
RetryHasNoCeiling ==
    /\ \A n \in LogIdx :
          (log[n].ev = "answer" /\ log[n].out = "note" /\ n + 2 <= Len(log)) =>
              (log[n + 2].ev = "quote" /\ log[n + 2].k = log[n].k)
    /\ \A k \in 1..Len(all_stocks) :
          Settled(k) =>
              /\ Cardinality(QuotesOf(k)) = Cardinality(NotesOf(k)) + 1
              /\ LastAnswer(k).out \in FinalOuts


(***************************************************************************)
(* C5 as stated.  When a request for a symbol is answered with the hard    *)
(* error, exactly one request was issued for that symbol, it took no       *)
(* 60-unit cooldown, nothing is recorded for it, and after the 12-unit     *)
(* delay the next symbol is requested.                                     *)
(***************************************************************************)
HardErrorOneRequest ==
    \A n \in LogIdx :
        (log[n].ev = "answer" /\ log[n].out = "error") =>
            LET k == log[n].k
            IN /\ Cardinality(QuotesOf(k)) = 1
               /\ \A m \in LogIdx : ~IsSleep(m, k, 60)
               /\ ~Recorded(k)
               /\ IF n < Len(log) THEN IsSleep(n + 1, k, 12) ELSE pc = "record"
               /\ n + 2 <= Len(log) =>
                     (log[n + 2].ev = "quote" /\ log[n + 2].k = k + 1)

(***************************************************************************)
(* C5 amended.  The hard error ends the symbol: after it no request for    *)
(* the symbol is issued and no 60-unit cooldown is taken, nothing is       *)
(* recorded for the symbol, and after the 12-unit delay the next symbol is *)
(* requested; when no rate-limit answer preceded it, exactly one request   *)
(* was issued for the symbol and it took no cooldown at all.               *)
(***************************************************************************)
HardErrorEndsSymbol ==
    \A n \in LogIdx :
        (log[n].ev = "answer" /\ log[n].out = "error") =>
            LET k == log[n].k
            IN /\ \A m \in QuotesOf(k) : m < n
               /\ \A m \in LogIdx : IsSleep(m, k, 60) => m < n
               /\ Cardinality(QuotesOf(k)) = Cardinality(NotesOf(k)) + 1
               /\ Cardinality({m \in LogIdx : IsSleep(m, k, 60)})
                     = Cardinality(NotesOf(k))
               /\ ~Recorded(k)
               /\ IF n < Len(log) THEN IsSleep(n + 1, k, 12) ELSE pc = "record"
               /\ n + 2 <= Len(log) =>
                     (log[n + 2].ev = "quote" /\ log[n + 2].k = k + 1)

\* the first symbol got the hard error on its only request, and the second
\* symbol was requested after it
HardErrorWitness ==
    /\ Cardinality(QuotesOf(1)) = 1
    /\ LastAnswer(1).out = "error"
    /\ QuotesOf(2) # {}

(***************************************************************************)
(* C6.  Per-symbol failures never stop the fetch: every listed symbol is   *)
(* requested, in listing order, and the output is exactly the traded bars  *)
(* of the symbols whose final answer resolved to one, in listing order.    *)
(***************************************************************************)
\* what a symbol with this final answer contributes to the output
ExpectedOf(ans, dd, stock) ==
    IF ans.out = "bar" /\ PositiveVolume(dd)
    THEN <<WithListing(dd[1], stock)>>
    ELSE <<>>

ExpectedAfter(ans, stock) ==
    ExpectedOf(ans, DailyDataOf(ans.sym, ans.resp, ans.date), stock)

RECURSIVE ExpectedOutput(_)
ExpectedOutput(n) ==
    IF n = 0 THEN <<>>
    ELSE ExpectedOutput(n - 1) \o
         (IF AnswersOf(n) # {}
          THEN ExpectedAfter(LastAnswer(n), all_stocks[n])
          ELSE <<>>)

FailuresSkipOnlyTheSymbol ==
    /\ \A a, b \in QuoteIdx : a < b => log[a].k <= log[b].k
    /\ \A n \in QuoteIdx : log[n].sym = all_stocks[log[n].k].symbol
    /\ FetchRan =>
          /\ \A k \in 1..Len(all_stocks) : QuotesOf(k) # {}
          /\ all_stock_data = ExpectedOutput(Len(all_stocks))

\* the first symbol failed, the second was fetched and is the only output
FailuresSkipWitness ==
    /\ pc = "done"
    /\ Len(all_stocks) = 2
    /\ AnswersOf(1) # {} /\ LastAnswer(1).out = "transport"
    /\ Len(all_stock_data) = 1
    /\ all_stock_data[1].symbol = all_stocks[2].symbol

(***************************************************************************)
(* C7.  If the listing request fails, it is the only request of the run:   *)
(* the listing is empty, no quote request is issued and the run has ended  *)
(* with an empty ranked result.                                            *)
(***************************************************************************)
ListingFailed ==
    \E n \in LogIdx : log[n].ev = "listing" /\ log[n].out = "transport"

ListingFailureEndsRun ==
    ListingFailed =>
        /\ Cardinality(CallIdx) = 1
        /\ all_stocks = <<>>
        /\ active_stocks = <<>>
        /\ pc = "done"

ListingFailureWitness == ListingFailed /\ pc = "done"

(***************************************************************************)
(* C8.  The output holds a bar for a listed symbol iff the symbol's final  *)
(* answer resolved to a fully parsed bar with volume > 0; every bar in the *)
(* output, at every point of the run, has volume > 0.                      *)
(***************************************************************************)
OutputIffTradedVolume ==
    /\ \A n \in 1..Len(Output) : Output[n].volume > 0
    /\ \A n \in 1..Len(batch_data) : batch_data[n].volume > 0
    /\ \A k \in 1..Len(all_stocks) :
          IF Settled(k)
          THEN Recorded(k) <=> TradedBar(LastAnswer(k))
          ELSE ~Recorded(k)

\* one symbol resolved to a zero-volume bar and is absent, the other is in
OutputIffWitness ==
    /\ Len(all_stocks) = 2
    /\ Settled(1) /\ Settled(2)
    /\ LastAnswer(1).out = "bar" /\ ~TradedBar(LastAnswer(1)) /\ ~Recorded(1)
    /\ Recorded(2)

(***************************************************************************)
(* C9.  Trading-Day Resolver: the resolved date is the latest available    *)
(* date not after the target (the target itself when it is available), and *)
(* resolution fails when there is none; a resolved date is never later     *)
(* than the target.                                                        *)
(***************************************************************************)
ResolverNearestPrior ==
    pc = "resolved" =>
        LET t == Strptime(target_date)
            D == {Strptime(d) : d \in DOMAIN data.series}
            prior == {d \in D : DateLE(d, t)}
        IN IF prior = {} THEN actual_date = <<>> /\ daily_data = <<>>
           ELSE /\ actual_date # <<>>
                /\ Strptime(actual_date[1]) \in prior
                /\ \A d \in prior : DateLE(d, Strptime(actual_date[1]))
                /\ daily_data # <<>> /\ daily_data[1].date = actual_date[1]

(***************************************************************************)
(* C10.  Ranker: the output has length min(count, number of candidates),   *)
(* is ordered by activityScore descending with equal scores in arrival     *)
(* order, and no candidate left out ranks before a candidate in it.        *)
(***************************************************************************)
\* arrival position of an entry of the ranked output
Arrival(e) ==
    CHOOSE k \in 1..Len(all_stock_data) : all_stock_data[k].symbol = e.symbol

ScoreOf(k) == calculate_activity_metrics(all_stock_data[k]).activity_score

\* candidate a ranks before candidate b
RanksBefore(a, b) ==
    ScoreOf(a) > ScoreOf(b) \/ (ScoreOf(a) = ScoreOf(b) /\ a < b)

RankerContract ==
    pc = "done" =>
        LET n == Len(all_stock_data)
            out == active_stocks
            chosen == {Arrival(out[p]) : p \in 1..Len(out)}
        IN /\ Len(out) = Min(count, n)
           /\ \A p \in 1..Len(out) :
                 /\ \E k \in 1..n : all_stock_data[k].symbol = out[p].symbol
                 /\ out[p] = Enhanced(all_stock_data[Arrival(out[p])])
           /\ \A p, q \in 1..Len(out) :
                 p < q => RanksBefore(Arrival(out[p]), Arrival(out[q]))
           /\ \A k \in (1..n) \ chosen : \A c \in chosen : RanksBefore(c, k)

\* scores [low, high, high] with count 2 give the second and third candidate
RankerWitness ==
    /\ pc = "done"
    /\ count = 2
    /\ Len(all_stock_data) = 3
    /\ ScoreOf(1) < ScoreOf(2) /\ ScoreOf(2) = ScoreOf(3)
    /\ Len(active_stocks) = 2
    /\ active_stocks[1].symbol = SymbolText(2)
    /\ active_stocks[2].symbol = SymbolText(3)


(***************************************************************************)
(* The Listing Filter on its own: lines 35-66 applied to every directory   *)
(* of up to MaxRows rows over the field values below.                      *)
(***************************************************************************)
MaxRows == 2

TxtStockLower == <<115, 116, 111, 99, 107>>

FilterStatuses == {TxtActiveCap, TxtActiveUp, TxtDelisted}
FilterExchanges == {TxtNASDAQ, TxtHKSE, TxtLSE}
FilterTypes == {TxtStock, TxtStockLower, TxtETF}

\* the p-th row of the directory as csv.DictReader yields it
ListedRow(p, f) ==
    [symbol |-> SymbolText(p), name |-> NameText(p),
     status |-> f[1], exchange |-> f[2], assetType |-> f[3]]

\* the directories of n rows
RowLists(n) ==
    {[p \in 1..n |-> ListedRow(p, f[p])] :
        f \in [1..n -> FilterStatuses \X FilterExchanges \X FilterTypes]}

\* lines 36, 56: exchange_counts after the loop
ExchangeCounts(rows) ==
    LET kept == {n \in 1..Len(rows) : RowIncluded(rows[n])}
    IN [e \in {Strip(rows[n].exchange) : n \in kept} |->
          Cardinality({n \in kept : Strip(rows[n].exchange) = e})]

InitFilter ==
    /\ pc = "filter"
    /\ \E n \in 0..MaxRows :
          data \in {[ok |-> TRUE, rows |-> rows] : rows \in RowLists(n)}
    /\ target_date = <<>>
    /\ count = DefaultCount
    /\ all_stocks = <<>>
    /\ batch_size = DefaultBatchSize
    /\ i = 0
    /\ j = 0
    /\ batch_data = <<>>
    /\ all_stock_data = <<>>
    /\ depth = 0
    /\ actual_date = <<>>
    /\ daily_data = <<>>
    /\ active_stocks = <<>>
    /\ clock = 0
    /\ log = <<>>

\* lines 31-66: the parsed rows are filtered into target_stocks
FilterListing ==
    /\ pc = "filter"
    /\ all_stocks' = TargetStocks(data)
    /\ pc' = "filtered"
    /\ UNCHANGED <<target_date, count, batch_size, i, j, batch_data,
                   all_stock_data, depth, data, actual_date, daily_data,
                   active_stocks, clock, log>>

NextFilter == FilterListing

SpecFilter == InitFilter /\ [][NextFilter]_vars

(***************************************************************************)
(* C11.  Listing Filter.                                                   *)
(***************************************************************************)
ListedExchanges == {TxtNASDAQ, TxtNYSE, TxtASX, TxtHKSE}

RECURSIVE SumOf(_, _)
SumOf(f, S) ==
    IF S = {} THEN 0
    ELSE LET e == CHOOSE x \in S : TRUE IN f[e] + SumOf(f, S \ {e})

\* the rule as worded: the fields are compared as they were received
KeptAsReceived(row) ==
    /\ Lower(row.status) = TxtActive
    /\ row.exchange \in ListedExchanges
    /\ row.assetType = TxtStock

\* the rule on the fields with surrounding whitespace removed
KeptTrimmed(row) ==
    /\ Lower(Strip(row.status)) = TxtActive
    /\ Strip(row.exchange) \in ListedExchanges
    /\ Strip(row.assetType) = TxtStock

\* the filter's result is the rows of `kept`, in order, and the counts per
\* exchange add up to their number
FilterYields(kept, counts) ==
    /\ Len(all_stocks) = Len(kept)
    /\ \A n \in 1..Len(kept) : all_stocks[n].symbol = kept[n].symbol
    /\ SumOf(counts, DOMAIN counts) = Len(kept)

\* C11 as worded: a row is kept iff its status is "active" in any letter
\* case, its exchange is one of the four listed and its assetType is exactly
\* "Stock"; kept rows keep the listing order; the per-exchange counts sum to
\* the number of kept rows.
FilterKeepsAsReceived ==
    pc = "filtered" =>
        FilterYields(SelectSeq(data.rows, KeptAsReceived),
                     ExchangeCounts(data.rows))

\* C11, amended: the same rule with each of the three fields trimmed of
\* surrounding whitespace before it is compared.
FilterKeepsTrimmed ==
    pc = "filtered" =>
        FilterYields(SelectSeq(data.rows, KeptTrimmed),
                     ExchangeCounts(data.rows))

\* a lower-case "stock" row is dropped and an "ACTIVE " row after it is kept
FilterWitness ==
    /\ pc = "filtered"
    /\ Len(data.rows) = 2
    /\ data.rows[1].assetType = TxtStockLower
    /\ data.rows[1].status = TxtActiveCap
    /\ data.rows[1].exchange = TxtNASDAQ
    /\ data.rows[2].status = TxtActiveUp
    /\ data.rows[2].assetType = TxtStock
    /\ data.rows[2].exchange = TxtHKSE
    /\ Len(all_stocks) = 1
    /\ all_stocks[1].symbol = SymbolText(2)
    /\ ExchangeCounts(data.rows)[TxtHKSE] = 1


(***************************************************************************)
(* process_stocks_in_batches on its own (lines 165-208), called with every *)
(* batch size of BatchSizes on every listing of up to MaxStocks            *)
(* instruments.                                                            *)
(***************************************************************************)
BatchSizes == {1, 2, DefaultBatchSize}

InitBatch ==
    /\ pc = "batch"
    /\ batch_size \in BatchSizes
    /\ all_stocks \in {FilterRows(RawListing(n)) : n \in 1..MaxStocks}
    /\ target_date = Strftime(Jan12)
    /\ count = DefaultCount
    /\ i = 0
    /\ j = 0
    /\ batch_data = <<>>
    /\ all_stock_data = <<>>
    /\ depth = 0
    /\ data = NoData
    /\ actual_date = <<>>
    /\ daily_data = <<>>
    /\ active_stocks = <<>>
    /\ clock = 0
    /\ log = <<>>

NextBatch ==
    \/ BatchStart
    \/ GetDailyData
    \/ GetDailyDataRecursionError
    \/ RecordAndPace
    \/ BatchEnd

SpecBatch == InitBatch /\ [][NextBatch]_vars

(***************************************************************************)
(* C12.  Batch size independence.                                          *)
(***************************************************************************)
IsAnswerAt(n) == log[n].ev = "answer"

\* what the Quote Source did in this run, in order: the answers it gave,
\* and whether the request they answer went out
Interactions ==
    LET at == SelectSeq([n \in LogIdx |-> n], IsAnswerAt)
    IN [m \in 1..Len(at) |->
          [out |-> log[at[m]].out, resp |-> log[at[m]].resp,
           sent |-> at[m] > 1 /\ log[at[m] - 1].ev = "quote"]]

EventAt(ev, k, sym, date, out, resp, dur, t) ==
    [ev |-> ev, k |-> k, sym |-> sym, date |-> date, out |-> out,
     resp |-> resp, dur |-> dur, t |-> t]

\* the run of a fetcher that knows no batches: one symbol after the other,
\* a 60-unit wait and a repeated request after a rate-limit notice, a
\* 12-unit wait after any other answer
RECURSIVE Replay(_, _, _, _)
Replay(xs, k, t, acc) ==
    IF xs = <<>> THEN [log |-> acc.log, out |-> acc.out, k |-> k]
    ELSE IF k > Len(all_stocks) THEN [log |-> <<>>, out |-> <<>>, k |-> 0]
    ELSE
      LET x == Head(xs)
          sym == all_stocks[k].symbol
          asked == IF x.sent
                   THEN <<EventAt("quote", k, sym, target_date, "", NoData, 0, t)>>
                   ELSE <<>>
          answer == EventAt("answer", k, sym, target_date, x.out, x.resp, 0, t)
          notice == x.resp.kind = "json" /\ ~x.resp.error /\ x.resp.note
          wait == IF notice THEN 60 ELSE 12
          slept == EventAt("sleep", k, <<>>, <<>>, "", NoData, wait, t)
      IN Replay(Tail(xs),
                IF notice THEN k ELSE k + 1,
                t + wait,
                [log |-> acc.log \o asked \o <<answer, slept>>,
                 out |-> IF notice THEN acc.out
                         ELSE acc.out \o ExpectedAfter(answer, all_stocks[k])])

RunIsReplay(r) ==
    /\ log = r.log
    /\ all_stock_data = r.out
    /\ r.k = Len(all_stocks) + 1

\* C12: a finished run of process_stocks_in_batches is, whatever its batch
\* size, the run of the batch-less fetcher on the same symbols, date and
\* Quote Source answers: the same quote requests in the same order, the same
\* waits at the same times, the same output.  Two batch sizes therefore give
\* the same requests, waits and output.
BatchSizeIrrelevant ==
    pc = "rank" => RunIsReplay(Replay(Interactions, 1, 0, [log |-> <<>>, out |-> <<>>]))

\* two batches of one symbol each, a rate-limit wait in the second, both
\* bars in the output
BatchSizeWitness ==
    /\ pc = "rank"
    /\ batch_size = 1
    /\ Len(all_stocks) = 2
    /\ NotesOf(2) # {}
    /\ Len(all_stock_data) = 2


(***************************************************************************)
(* The Activity Scorer on its own: lines 241-275 applied to every pair of  *)
(* bars over the values below.  The volumes stay off the exact halves of a *)
(* hundredth, where round() goes by the binary value of the float.         *)
(***************************************************************************)
ScorerBars ==
    {RawBar(Num(o), Num(h), Num(l), Num(c), Num(v)) :
        o \in {0, 3, 4}, h \in {5, 6}, l \in {0, 1}, c \in {1, 3, 5},
        v \in {4999, 15001, 2000000}}

ScorerLists ==
    {<<Candidate(1, a), Candidate(2, b)>> : a \in ScorerBars, b \in ScorerBars}

InitScorer ==
    /\ pc = "rank"
    /\ count = DefaultCount
    /\ all_stock_data \in ScorerLists
    /\ target_date = Strftime(Jan12)
    /\ all_stocks = <<>>
    /\ batch_size = DefaultBatchSize
    /\ i = 0
    /\ j = 0
    /\ batch_data = <<>>
    /\ depth = 0
    /\ data = NoData
    /\ actual_date = <<>>
    /\ daily_data = <<>>
    /\ active_stocks = <<>>
    /\ clock = 0
    /\ log = <<>>

NextScorer == Rank

SpecScorer == InitScorer /\ [][NextScorer]_vars

(***************************************************************************)
(* C13.  Activity Scorer guard.  Values are in hundredths: r is x rounded  *)
(* to two decimal places iff r is an integer with |r - 100 x| <= 1/2.      *)
(***************************************************************************)
Scored == {active_stocks[n] : n \in 1..Len(active_stocks)}

\* r hundredths is num/den (den > 0) rounded to the nearest hundredth
IsRounded(r, num, den) == 2 * Abs(r * den - 100 * num) <= den

\* C13: with open > 0 the price change percent is (close - open) / open * 100
\* rounded to two decimals; with open = 0 the price change percent and the
\* volatility percent are both 0 and the activity score is the volume in
\* millions rounded to two decimals.
ScorerGuard ==
    pc = "done" =>
        \A e \in Scored :
            /\ e.open > 0 =>
                IsRounded(e.price_change_percent, 100 * (e.close - e.open), e.open)
            /\ e.open = 0 =>
                /\ e.price_change_percent = 0
                /\ e.volatility_percent = 0
                /\ IsRounded(e.activity_score, e.volume, 1000000)

\* a bar with open 0 and 2,000,000 shares scores 2.00; a bar opening at 3
\* and closing at 5 moved by 66.67 percent
ScorerGuardWitness ==
    /\ pc = "done"
    /\ \E e \in Scored :
          e.open = 0 /\ e.close = 5 /\ e.volume = 2000000 /\ e.activity_score = 200
    /\ \E e \in Scored :
          e.open = 3 /\ e.close = 5 /\ e.price_change_percent = 6667


(***************************************************************************)
(* C14.  Score monotonicity.  The three components of a scored bar, as     *)
(* exact fractions <<numerator, denominator>>: the volume, the absolute    *)
(* price change percent and the volatility percent before rounding.        *)
(***************************************************************************)
VolumeOf(e) == <<e.volume, 1>>
AbsMoveOf(e) == IF e.open = 0 THEN <<0, 1>> ELSE <<Abs(e.close - e.open), e.open>>
VolatilityOf(e) == IF e.open = 0 THEN <<0, 1>> ELSE <<e.high - e.low, e.open>>

FracLE(p, q) == p[1] * q[2] <= q[1] * p[2]
FracEq(p, q) == p[1] * q[2] = q[1] * p[2]

\* b differs from a in at most one component, and that one is not lower
RaisedInOne(a, b) ==
    \/ /\ FracLE(VolumeOf(a), VolumeOf(b))
       /\ FracEq(AbsMoveOf(a), AbsMoveOf(b))
       /\ FracEq(VolatilityOf(a), VolatilityOf(b))
    \/ /\ FracEq(VolumeOf(a), VolumeOf(b))
       /\ FracLE(AbsMoveOf(a), AbsMoveOf(b))
       /\ FracEq(VolatilityOf(a), VolatilityOf(b))
    \/ /\ FracEq(VolumeOf(a), VolumeOf(b))
       /\ FracEq(AbsMoveOf(a), AbsMoveOf(b))
       /\ FracLE(VolatilityOf(a), VolatilityOf(b))

\* C14: the activity score never falls when one of volume, absolute price
\* change percent and volatility percent is raised and the other two are
\* held fixed.
ScoreMonotone ==
    pc = "done" =>
        \A a, b \in Scored :
            RaisedInOne(a, b) => a.activity_score <= b.activity_score

\* two bars equal in volume and range, the second falling further than the
\* first rises, and scoring higher
ScoreMonotoneWitness ==
    /\ pc = "done"
    /\ \E a, b \in Scored :
          /\ a.volume = b.volume /\ a.open = 4 /\ b.open = 4
          /\ a.high - a.low = b.high - b.low
          /\ a.close = 5 /\ b.close = 1
          /\ a.activity_score < b.activity_score


(***************************************************************************)
(* C15.  Termination of process_stocks_in_batches.  The code is one        *)
(* sequential thread: a step that can be taken is taken, which is weak     *)
(* fairness of the next-step action.                                       *)
(***************************************************************************)
SpecBatchFair == SpecBatch /\ WF_vars(NextBatch)

\* first half of C15: the fetch ends, every symbol having been processed
FetchTerminates ==
    <>(pc = "rank" /\ \A k \in 1..Len(all_stocks) : Settled(k))

\* every request for the k-th symbol that was answered so far was answered
\* with the rate-limit notice
OnlyRateLimited(k) ==
    /\ NotesOf(k) # {}
    /\ \A n \in AnswersOf(k) : log[n].out \notin FinalOuts

\* C15, second half: while the Quote Source has answered every request for
\* a symbol with the rate-limit notice, the run has not advanced past that
\* symbol: the fetcher has not finished with it and no later symbol has been
\* requested.
BlockedOnRateLimitedSymbol ==
    \A k \in 1..Len(all_stocks) :
        OnlyRateLimited(k) =>
            /\ ~Settled(k)
            /\ \A n \in QuoteIdx : log[n].k <= k
            /\ pc # "rank"


(***************************************************************************)
(* C16.  The accumulated result of process_stocks_in_batches.              *)
(***************************************************************************)
IsPrefix(s, t) == Len(s) <= Len(t) /\ SubSeq(t, 1, Len(s)) = s

\* the listing entries the n-th bar of the result can stem from
EntriesOf(bar) ==
    {k \in 1..Len(all_stocks) :
        /\ all_stocks[k].symbol = bar.symbol
        /\ all_stocks[k].exchange = bar.exchange
        /\ all_stocks[k].name = bar.name}

\* every bar stems from a listing entry of its own, carrying that entry's
\* exchange and name, and the bars follow the listing order
ResultFollowsListing(result) ==
    /\ \A n \in 1..Len(result) : EntriesOf(result[n]) # {}
    /\ \A n, m \in 1..Len(result) :
          n < m => \A a \in EntriesOf(result[n]), b \in EntriesOf(result[m]) : a < b

\* C16: every step of the fetcher leaves the result accumulated so far as a
\* prefix of the new result (append-only); the result holds at most one bar
\* per listed entry, in listing order, each bar with the exchange and name
\* of its own entry.
ResultAppendOnly ==
    /\ [](ResultFollowsListing(Output))
    /\ [][IsPrefix(Output, Output')]_vars

\* the second batch is about to be added to the first
ResultAppendOnlyWitness ==
    /\ pc = "batch_end"
    /\ batch_size = 1
    /\ i = 1
    /\ Len(all_stock_data) = 1
    /\ Len(batch_data) = 1
    /\ all_stock_data[1].name = all_stocks[1].name
    /\ batch_data[1].name = all_stocks[2].name


(***************************************************************************)
(* C17.  No fallback after resolution.                                     *)
(***************************************************************************)
\* the date the Resolver picks in a series: the target, else the latest
\* earlier one
PickedDates(time_series, target) ==
    IF target \in DOMAIN time_series THEN {target}
    ELSE {d \in DOMAIN time_series :
            /\ StrLE(d, target)
            /\ \A e \in DOMAIN time_series : StrLE(e, target) => StrLE(e, d)}

\* a record as received that parses in full and has traded volume
RawUsable(raw) ==
    (\A f \in BarFields : raw[f].tag = "num") /\ raw.volume.v > 0

IsSeriesAnswer(ans) ==
    /\ ans.ev = "answer"
    /\ ans.resp.kind = "json" /\ ~ans.resp.error /\ ~ans.resp.note
    /\ DOMAIN ans.resp.series # {}

\* the answer's record at the picked date has volume 0 or does not parse
PickedUnusable(ans) ==
    /\ IsSeriesAnswer(ans)
    /\ \E d \in PickedDates(ans.resp.series, ans.date) :
          ~RawUsable(ans.resp.series[d])

\* an earlier date of the answer's series holds a usable record
EarlierUsable(ans) ==
    \E d \in PickedDates(ans.resp.series, ans.date) :
        \E e \in DOMAIN ans.resp.series :
            e # d /\ StrLE(e, d) /\ RawUsable(ans.resp.series[e])

\* C17: when the record at the date the Resolver picked has volume 0 or a
\* missing or unparsable field, the symbol is left out of the output, also
\* when an earlier date holds a valid record, and no further quote request
\* is issued for the symbol.
NoFallbackAfterResolution ==
    \A n \in LogIdx :
        PickedUnusable(log[n]) =>
            /\ ~Recorded(log[n].k)
            /\ \A m \in QuoteIdx : m > n => log[m].k > log[n].k
            /\ n < Len(log) => IsSleep(n + 1, log[n].k, 12)

\* the first symbol's picked record has volume 0, the second's does not
\* parse, both series hold a valid record a day earlier, and the run ends
\* after two quote requests with nothing in the output
NoFallbackWitness ==
    /\ pc = "done"
    /\ Len(all_stocks) = 2
    /\ Settled(1) /\ Settled(2)
    /\ PickedUnusable(LastAnswer(1)) /\ EarlierUsable(LastAnswer(1))
    /\ LastAnswer(1).out = "bar"
    /\ PickedUnusable(LastAnswer(2)) /\ EarlierUsable(LastAnswer(2))
    /\ LastAnswer(2).out = "badbar"
    /\ Cardinality(QuoteIdx) = 2
    /\ all_stock_data = <<>>


(***************************************************************************)
(* C18.  Confirmation and listing gate.                                    *)
(***************************************************************************)
ListingAt(n) == n \in LogIdx /\ log[n].ev = "listing"
ConfirmAt(n) == n \in LogIdx /\ log[n].ev = "confirm"

\* the typed text is exactly "y" once trimmed and lower-cased
TypedYes(typed) == Lower(Strip(typed)) = TxtY

\* the listing returned at least one instrument and the confirmation was
\* "y", both before position n of the history
GateOpenBefore(n) ==
    /\ all_stocks # <<>>
    /\ \E c \in 1..(n - 1) :
          /\ ConfirmAt(c) /\ TypedYes(log[c].sym)
          /\ \E l \in 1..(c - 1) : ListingAt(l)

\* C18: a quote request (and a pacing or cooldown delay) happens only after
\* the listing returned at least one instrument and the confirmation was
\* exactly "y" after trimming and lower-casing; in every other run the
\* result is empty, no quote request was issued and no delay was taken.
FetchIsGated ==
    /\ \A n \in LogIdx :
          log[n].ev \in {"quote", "answer", "sleep"} => GateOpenBefore(n)
    /\ (pc = "done" /\ ~GateOpenBefore(Len(log) + 1)) =>
          /\ active_stocks = <<>>
          /\ QuoteIdx = {}
          /\ \A n \in LogIdx : log[n].ev # "sleep"
          /\ clock = 0

\* two instruments were listed, "yes" was typed, and the run ended with an
\* empty result without a quote request
FetchIsGatedWitness ==
    /\ pc = "done"
    /\ Len(all_stocks) = 2
    /\ \E c \in LogIdx : ConfirmAt(c) /\ log[c].sym = TxtYes
    /\ ~GateOpenBefore(Len(log) + 1)
    /\ active_stocks = <<>>
    /\ CallIdx = {1}
    /\ clock = 0

=============================================================================
